---- MODULE Spec2Model ----
(***************************************************************************)
(* Truck Load Monitor (src/main.cpp): the load-event detector, the         *)
(* calibration keypad workflow and the EEPROM accumulator encoding of the  *)
(* Arduino Uno sketch, as a state machine.                                 *)
(*                                                                         *)
(* A C `float` is an IEEE-754 binary32 value, kept as its three fields     *)
(* [s, e, m] (sign, biased exponent, 23-bit fraction); `int` is the 16-bit *)
(* two's-complement int of the AVR; a `byte` is 0..255.                    *)
(***************************************************************************)
EXTENDS Integers, Sequences, FiniteSets, TLC

(***************************************************************************)
(* Bounds of the model.                                                    *)
(***************************************************************************)
\* longest keypad string the model lets the operator type
MaxLen == 3
\* load cycles the model lets complete, over all power-on sessions
MaxCycles == 2
\* the touch points the model applies the hit tests to: 0 .. SCREEN_W across
\* and 0 .. SCREEN_H down, which holds every button and key
SCREEN_W == 480
SCREEN_H == 320

(***************************************************************************)
(* binary32 arithmetic (round to nearest, ties to even).                   *)
(***************************************************************************)
Pow2(n) == 2 ^ n

\* number of fraction bits of a binary32
FracBits == 23
\* exponent field of infinities and NaNs
ExpMax == 255
\* exponent bias of a binary32
Bias == 127

Hidden == Pow2(FracBits)

MkFloat(s, e, m) == [s |-> s, e |-> e, m |-> m]

FZero == MkFloat(0, 0, 0)
FInf(s) == MkFloat(s, ExpMax, 0)
\* the quiet NaN the AVR float routines return
FNaN == MkFloat(0, ExpMax, Pow2(FracBits - 1))

isnan(f) == f.e = ExpMax /\ f.m # 0
IsInf(f) == f.e = ExpMax /\ f.m = 0
IsZero(f) == f.e = 0 /\ f.m = 0

\* significand and exponent of a finite value (subnormals have exponent 1)
Sig(f) == IF f.e = 0 THEN f.m ELSE Hidden + f.m
Exp(f) == IF f.e = 0 THEN 1 ELSE f.e

\* magnitude order key of a non-NaN value
Mag(f) == f.e * Hidden + f.m

FNeg(f) == MkFloat(1 - f.s, f.e, f.m)

\* a == b, a < b, a > b of C on floats (false as soon as one side is NaN)
FEq(a, b) ==
  /\ ~isnan(a) /\ ~isnan(b)
  /\ \/ IsZero(a) /\ IsZero(b)
     \/ a = b

FLt(a, b) ==
  /\ ~isnan(a) /\ ~isnan(b)
  /\ ~(IsZero(a) /\ IsZero(b))
  /\ IF a.s # b.s THEN a.s = 1
     ELSE IF a.s = 0 THEN Mag(a) < Mag(b) ELSE Mag(b) < Mag(a)

FGt(a, b) == FLt(b, a)

\* x shifted right by d bits, the bits shifted out kept as a sticky low bit
ShiftRS(x, d) ==
  IF d = 0 THEN x
  ELSE IF d >= 31 THEN (IF x # 0 THEN 1 ELSE 0)
  ELSE LET q == x \div Pow2(d)
           r == x % Pow2(d)
       IN IF r # 0 /\ q % 2 = 0 THEN q + 1 ELSE q

\* sig3 carries three extra low bits (guard, round, sticky)
RoundRNE(sig3) ==
  LET q == sig3 \div 8
      r == sig3 % 8
  IN IF r > 4 \/ (r = 4 /\ q % 2 = 1) THEN q + 1 ELSE q

RECURSIVE NormL(_, _)
\* shift the significand left until its leading bit is in place
NormL(exp, sig3) ==
  IF sig3 >= 8 * Hidden \/ sig3 = 0 THEN <<exp, sig3>>
  ELSE NormL(exp - 1, sig3 * 2)

\* the binary32 nearest to (-1)^s * sig3/8 * 2^(exp - Bias - FracBits)
Pack(s, exp, sig3) ==
  IF sig3 = 0 THEN MkFloat(s, 0, 0)
  ELSE
    LET n == NormL(exp, sig3)
        e1 == n[1]
        g1 == n[2]
    IN IF e1 >= ExpMax THEN FInf(s)
       ELSE
         LET g2 == IF e1 <= 0 THEN ShiftRS(g1, 1 - e1) ELSE g1
             e2 == IF e1 <= 0 THEN 1 ELSE e1
             q == RoundRNE(g2)
         IN IF q >= 2 * Hidden
            THEN (IF e2 + 1 >= ExpMax THEN FInf(s) ELSE MkFloat(s, e2 + 1, 0))
            ELSE IF q < Hidden THEN MkFloat(s, 0, q)
            ELSE MkFloat(s, e2, q - Hidden)

\* a + b
FAdd(a, b) ==
  IF isnan(a) \/ isnan(b) THEN FNaN
  ELSE IF IsInf(a) THEN (IF IsInf(b) /\ a.s # b.s THEN FNaN ELSE a)
  ELSE IF IsInf(b) THEN b
  ELSE
    LET big == IF Mag(a) >= Mag(b) THEN a ELSE b
        small == IF Mag(a) >= Mag(b) THEN b ELSE a
        d == Exp(big) - Exp(small)
        A == Sig(big) * 8
        B == ShiftRS(Sig(small) * 8, d)
    IN IF a.s = b.s
       THEN LET S == A + B
            IN IF S >= 16 * Hidden
               THEN Pack(big.s, Exp(big) + 1, ShiftRS(S, 1))
               ELSE Pack(big.s, Exp(big), S)
       ELSE IF A = B THEN FZero
       ELSE Pack(big.s, Exp(big), A - B)

RECURSIVE DivBits(_, _, _, _)
\* n more quotient bits of r/d by long division; <<quotient, remainder>>
DivBits(r, d, n, q) ==
  IF n = 0 THEN <<q, r>>
  ELSE IF 2 * r >= d THEN DivBits(2 * r - d, d, n - 1, 2 * q + 1)
  ELSE DivBits(2 * r, d, n - 1, 2 * q)

\* a / b
FDiv(a, b) ==
  LET s == IF a.s = b.s THEN 0 ELSE 1
  IN IF isnan(a) \/ isnan(b) THEN FNaN
     ELSE IF IsInf(a) THEN (IF IsInf(b) THEN FNaN ELSE FInf(s))
     ELSE IF IsInf(b) THEN MkFloat(s, 0, 0)
     ELSE IF IsZero(b) THEN (IF IsZero(a) THEN FNaN ELSE FInf(s))
     ELSE IF IsZero(a) THEN MkFloat(s, 0, 0)
     ELSE
       LET na == NormL(Exp(a), Sig(a) * 8)
           nb == NormL(Exp(b), Sig(b) * 8)
           sa == na[2] \div 8
           sb == nb[2] \div 8
           lt == sa < sb
           num == IF lt THEN 2 * sa ELSE sa
           ex == na[1] - nb[1] + Bias - (IF lt THEN 1 ELSE 0)
           qr == DivBits(num - sb, sb, FracBits + 3, 1)
           sig3 == IF qr[2] # 0 /\ qr[1] % 2 = 0 THEN qr[1] + 1 ELSE qr[1]
       IN Pack(s, ex, sig3)

\* conversion of an integer (|n| < 2^24) to float
IntToFloat(n) ==
  IF n >= 0 THEN Pack(0, Bias + FracBits, n * 8)
  ELSE Pack(1, Bias + FracBits, (0 - n) * 8)


(***************************************************************************)
(* Program constants.                                                      *)
(***************************************************************************)
EEPROM_LOAD_COUNT_ADDR == 0
EEPROM_TOTAL_WEIGHT_ADDR == 2
EEPROM_CAL_FACTOR_ADDR == 6
\* one past the last EEPROM cell the sketch uses
EEPROM_USED == 10

BUTTON_W == 100
BUTTON_H == 40
TARE_BUTTON_X == 10
TARE_BUTTON_Y == 200
STORE_BUTTON_X == 120
STORE_BUTTON_Y == 200
RESET_BUTTON_X == 230
RESET_BUTTON_Y == 200
CALIBRATE_BUTTON_X == 340
CALIBRATE_BUTTON_Y == 200

\* keypad geometry, the locals of getKeypadInput
startX == 240
startY == 40
keyW == 60
keyH == 40
spacing == 10

\* int of the ATmega328P: 16 bits, two's complement
INT_BITS == 16
INT_MAX == Pow2(INT_BITS - 1) - 1
INT_MIN == 0 - Pow2(INT_BITS - 1)

\* the initializer of calibration_factor and the default of setup()
DEFAULT_CAL == 7050
DefaultFactor == IntToFloat(0 - DEFAULT_CAL)

\* the literal 0.5 of the noise filter
Half == FDiv(IntToFloat(1), IntToFloat(2))

\* key == 0: no key pressed
NoKey == "NUL"
\* a float local that the step did not assign
NoValue == MkFloat(2, 0, 0)
\* no routine was applied on its own in the step
NoCall == [fn |-> "none"]
\* history: no Store or Reset has happened yet
NoStore == <<>>

(***************************************************************************)
(* EEPROM codec.  The store is an array of bytes; EEPROM.update leaves a   *)
(* cell that already holds the byte alone and writes it otherwise.         *)
(***************************************************************************)
EEPROMupdate(mem, address, b) ==
  IF mem[address] = b THEN mem ELSE [mem EXCEPT ![address] = b]

\* the 16-bit pattern of an int
ToU16(value) == (value + Pow2(INT_BITS)) % Pow2(INT_BITS)

EEPROMWriteInt(mem, address, value) ==
  LET lowByte == ToU16(value) % 256
      highByte == (ToU16(value) \div 256) % 256
  IN EEPROMupdate(EEPROMupdate(mem, address, lowByte), address + 1, highByte)

\* (highByte << 8) | lowByte, returned as int: a high byte of 128 or more
\* lands in the sign bit
EEPROMReadInt(mem, address) ==
  LET lowByte == mem[address]
      highByte == mem[address + 1]
      u == highByte * 256 + lowByte
  IN IF u > INT_MAX THEN u - Pow2(INT_BITS) ELSE u

\* the four bytes of a float in memory (little-endian AVR)
floatBytes(value) ==
  << value.m % 256,
     (value.m \div 256) % 256,
     (value.e % 2) * 128 + value.m \div 65536,
     value.s * 128 + value.e \div 2 >>

EEPROMWriteFloat(mem, address, value) ==
  LET fb == floatBytes(value)
  IN EEPROMupdate(EEPROMupdate(EEPROMupdate(EEPROMupdate(mem,
       address, fb[1]), address + 1, fb[2]), address + 2, fb[3]), address + 3, fb[4])

EEPROMReadFloat(mem, address) ==
  LET b0 == mem[address]
      b1 == mem[address + 1]
      b2 == mem[address + 2]
      b3 == mem[address + 3]
  IN MkFloat(b3 \div 128,
             (b3 % 128) * 2 + b2 \div 128,
             (b2 % 128) * 65536 + b1 * 256 + b0)

(***************************************************************************)
(* Touch dispatch.                                                         *)
(***************************************************************************)
\* InRect with the edges of the rectangle counted as inside
InRectClosed(x, y, bx, by, bw, bh) ==
  x >= bx /\ x <= (bx + bw) /\ y >= by /\ y <= (by + bh)

InRect(x, y, bx, by, bw, bh) ==
  x > bx /\ x < (bx + bw) /\ y > by /\ y < (by + bh)

\* the else-if chain of loop(): the first button whose rectangle holds (x, y)
hitButton(x, y) ==
  IF InRect(x, y, TARE_BUTTON_X, TARE_BUTTON_Y, BUTTON_W, BUTTON_H) THEN "tare"
  ELSE IF InRect(x, y, STORE_BUTTON_X, STORE_BUTTON_Y, BUTTON_W, BUTTON_H) THEN "store"
  ELSE IF InRect(x, y, RESET_BUTTON_X, RESET_BUTTON_Y, BUTTON_W, BUTTON_H) THEN "reset"
  ELSE IF InRect(x, y, CALIBRATE_BUTTON_X, CALIBRATE_BUTTON_Y, BUTTON_W, BUTTON_H)
       THEN "calibrate"
  ELSE "none"

keys ==
  << <<"1", "2", "3">>,
     <<"4", "5", "6">>,
     <<"7", "8", "9">>,
     <<".", "0", "E">> >>

getKeypadInput(x, y) ==
  LET hit(row, col) ==
        InRect(x, y, startX + col * (keyW + spacing),
               startY + row * (keyH + spacing), keyW, keyH)
      hits == {rc \in (0 .. 3) \X (0 .. 2) : hit(rc[1], rc[2])}
      \* the loops return at the first hit in row-major order
      first == CHOOSE rc \in hits :
                 \A o \in hits : rc[1] * 3 + rc[2] <= o[1] * 3 + o[2]
  IN IF hits # {} THEN keys[first[1] + 1][first[2] + 1]
     ELSE IF InRect(x, y, startX, startY + 4 * (keyH + spacing),
                    keyW * 3 + spacing * 2, keyH) THEN "C"
     ELSE NoKey

(***************************************************************************)
(* String::toFloat on the keypad buffer: the decimal value of the longest  *)
(* numeric prefix, 0 when there is none.                                   *)
(***************************************************************************)
digitChars == <<"0", "1", "2", "3", "4", "5", "6", "7", "8", "9">>
Digits == {digitChars[i] : i \in 1 .. 10}
DigitVal(c) == (CHOOSE i \in 1 .. 10 : digitChars[i] = c) - 1

contains(str, c) == \E i \in 1 .. Len(str) : str[i] = c

RECURSIVE ParseDec(_, _, _, _, _)
\* <<digits read as one integer, number of them after the point>>
ParseDec(str, i, n, frac, dotSeen) ==
  IF i > Len(str) THEN <<n, frac>>
  ELSE IF str[i] \in Digits
       THEN ParseDec(str, i + 1, n * 10 + DigitVal(str[i]),
                     IF dotSeen THEN frac + 1 ELSE frac, dotSeen)
  ELSE IF str[i] = "." /\ ~dotSeen THEN ParseDec(str, i + 1, n, frac, TRUE)
  ELSE <<n, frac>>

toFloat(str) ==
  LET p == ParseDec(str, 1, 0, 0, FALSE)
  IN IF p[1] = 0 THEN FZero
     ELSE FDiv(IntToFloat(p[1]), IntToFloat(10 ^ p[2]))


(***************************************************************************)
(* State.                                                                  *)
(***************************************************************************)
VARIABLES
  calibration_factor,  \* float, line 36
  last_weight,         \* float, line 59
  current_weight,      \* float, line 60
  total_weight,        \* float, line 61
  load_count,          \* int, line 62
  load_detected,       \* bool, line 65
  isCalibrating,       \* bool, line 88
  enteredWeight,       \* String, line 89: a sequence of characters
  eeprom,              \* the EEPROM cells 0..9
  op,                  \* the routine the last step ran: setup, loop, handleCalibration
  sample,              \* what scale.get_units() returned in the last step (line 121)
  button,              \* the button branch loop() took in the last step (154-201)
  key,                 \* the key of handleCalibration in the last step (line 313)
  rawValue,            \* what scale.read_average(10) returned in the last step (line 330)
  call,                \* the codec or keypad routine applied on its own, its arguments and result
  cycles,              \* history: load cycles completed so far
  lastPos,             \* history: last positive filtered sample of the open cycle, or 0
  sumLast,             \* history: sum of lastPos over the completed cycles
  clean,               \* history: total_weight was 0 at power-on or Reset, no Tare since
  stored               \* history: the accumulator right after the last Store or Reset

progVars == <<calibration_factor, last_weight, current_weight, total_weight, load_count,
              load_detected, isCalibrating, enteredWeight, eeprom>>
stepVars == <<op, sample, button, key, rawValue, call>>
histVars == <<cycles, lastPos, sumLast, clean, stored>>
vars == <<progVars, stepVars, histVars>>

(***************************************************************************)
(* Inputs of the model.                                                    *)
(***************************************************************************)
\* a reading of n quarters of a kilogram
Quarters(n) == FDiv(IntToFloat(n), IntToFloat(4))

\* what ts.getPoint() and map() deliver: no touch, or a point
NoTouch == [z |-> FALSE, x |-> 0, y |-> 0]
Point(x, y) == [z |-> TRUE, x |-> x, y |-> y]

\* Spec, the load detector in detail: readings of scale.get_units() of -1,
\* -0.5, -0.25, 0, 0.25, 0.5 and 2 kg
Samples == {Quarters(q) : q \in {-4, -2, -1, 0, 1, 2, 8}}
\* readings of scale.read_average(10), a long
Raws == {0, 8750}
\* Tare, Store, Reset (the "." key), Calibrate (the "E" key), the "0" key, the
\* Clear key, and the right edge of Tare
Touches == {NoTouch, Point(60, 220), Point(170, 220), Point(280, 220),
            Point(390, 220), Point(340, 210), Point(340, 260), Point(110, 220)}

\* SpecCal, the keypad in detail: the scale stays empty
CalSamples == {Quarters(0)}
CalRaws == {8750}
\* the keys "1", "2", "0", ".", "E" (Calibrate), Clear, and the gap between the
\* "1" and the "2" key
CalTouches == {NoTouch, Point(270, 60), Point(340, 60), Point(340, 210),
               Point(270, 195), Point(390, 220), Point(340, 260), Point(305, 60)}

\* EEPROM contents at power-on: never written, cleared by a Reset, and left by
\* a long-used device (INT_MAX loads, 4 kg, factor 700)
Blank == [a \in 0 .. EEPROM_USED - 1 |-> 255]
Cleared ==
  EEPROMWriteFloat(EEPROMWriteInt(Blank, EEPROM_LOAD_COUNT_ADDR, 0),
                   EEPROM_TOTAL_WEIGHT_ADDR, FZero)
Used ==
  EEPROMWriteFloat(
    EEPROMWriteFloat(EEPROMWriteInt(Blank, EEPROM_LOAD_COUNT_ADDR, INT_MAX),
                     EEPROM_TOTAL_WEIGHT_ADDR, IntToFloat(4)),
    EEPROM_CAL_FACTOR_ADDR, IntToFloat(700))
Images == {Blank, Cleared, Used}

(***************************************************************************)
(* setup(), lines 91-114.                                                  *)
(***************************************************************************)
setupFactor(mem) ==
  LET f == EEPROMReadFloat(mem, EEPROM_CAL_FACTOR_ADDR)
  IN IF isnan(f) \/ FEq(f, FZero) THEN DefaultFactor ELSE f

\* setup that leaves the accumulator at its initializers
setupNoLoad(mem) ==
  [ calibration_factor |-> setupFactor(mem),
    last_weight |-> FZero,
    current_weight |-> FZero,
    total_weight |-> FZero,
    load_count |-> 0,
    load_detected |-> FALSE,
    isCalibrating |-> FALSE,
    enteredWeight |-> <<>> ]

\* the globals after their initializers and setup() on the store mem
setup(mem) ==
  [ calibration_factor |-> setupFactor(mem),
    last_weight |-> FZero,
    current_weight |-> FZero,
    total_weight |-> EEPROMReadFloat(mem, EEPROM_TOTAL_WEIGHT_ADDR),
    load_count |-> EEPROMReadInt(mem, EEPROM_LOAD_COUNT_ADDR),
    load_detected |-> FALSE,
    isCalibrating |-> FALSE,
    enteredWeight |-> <<>> ]

(***************************************************************************)
(* loop(), normal mode: lines 120-205.                                     *)
(***************************************************************************)
\* Arduino.h: #define abs(x) ((x)>0?(x):-(x))
abs(x) == IF FGt(x, FZero) THEN x ELSE FNeg(x)

\* lines 123-126
noiseFilter(w) == IF FLt(abs(w), Half) THEN FZero ELSE w

\* load_count++ (line 135).  At INT_MAX the signed increment overflows; the
\* AVR build adds in 16 bits and wraps.
increment(n) == IF n = INT_MAX THEN {INT_MIN} ELSE {n + 1}

\* detect with last_weight locked to the first positive reading of the cycle
detectFirst(cw, inc) ==
  IF FGt(cw, FZero)
  THEN [ load_detected |-> TRUE,
         last_weight |-> IF load_detected THEN last_weight ELSE cw,
         total_weight |-> total_weight, load_count |-> load_count,
         unloaded |-> FALSE ]
  ELSE IF FEq(cw, FZero) /\ load_detected
  THEN [ load_detected |-> FALSE, last_weight |-> FZero,
         total_weight |-> FAdd(total_weight, last_weight), load_count |-> inc,
         unloaded |-> TRUE ]
  ELSE [ load_detected |-> load_detected, last_weight |-> last_weight,
         total_weight |-> total_weight, load_count |-> load_count,
         unloaded |-> FALSE ]

\* detect in which every reading that is not positive ends the load
detectNegativeCloses(cw, inc) ==
  IF FGt(cw, FZero)
  THEN [ load_detected |-> TRUE, last_weight |-> cw,
         total_weight |-> total_weight, load_count |-> load_count,
         unloaded |-> FALSE ]
  ELSE IF load_detected
  THEN [ load_detected |-> FALSE, last_weight |-> FZero,
         total_weight |-> FAdd(total_weight, last_weight), load_count |-> inc,
         unloaded |-> TRUE ]
  ELSE [ load_detected |-> load_detected, last_weight |-> last_weight,
         total_weight |-> total_weight, load_count |-> load_count,
         unloaded |-> FALSE ]

\* lines 129-138 on the filtered reading cw; inc is the outcome of load_count++
detect(cw, inc) ==
  IF FGt(cw, FZero)
  THEN [ load_detected |-> TRUE, last_weight |-> cw,
         total_weight |-> total_weight, load_count |-> load_count,
         unloaded |-> FALSE ]
  ELSE IF FEq(cw, FZero) /\ load_detected
  THEN [ load_detected |-> FALSE, last_weight |-> FZero,
         total_weight |-> FAdd(total_weight, last_weight), load_count |-> inc,
         unloaded |-> TRUE ]
  ELSE [ load_detected |-> load_detected, last_weight |-> last_weight,
         total_weight |-> total_weight, load_count |-> load_count,
         unloaded |-> FALSE ]

\* dispatchFallThrough that saves the accumulator in every pass
dispatchFallThroughStores(cw, d, b) ==
  [ current_weight |-> cw, last_weight |-> d.last_weight,
    load_detected |-> d.load_detected,
    total_weight |-> d.total_weight, load_count |-> d.load_count,
    eeprom |-> EEPROMWriteFloat(
                 EEPROMWriteInt(eeprom, EEPROM_LOAD_COUNT_ADDR, d.load_count),
                 EEPROM_TOTAL_WEIGHT_ADDR, d.total_weight),
    isCalibrating |-> IF b = "calibrate" THEN TRUE ELSE isCalibrating ]

\* lines 197-201 and the fall-through: Calibrate, or no button at all
dispatchFallThrough(cw, d, b) ==
  [ current_weight |-> cw, last_weight |-> d.last_weight,
    load_detected |-> d.load_detected,
    total_weight |-> d.total_weight, load_count |-> d.load_count,
    eeprom |-> eeprom,
    isCalibrating |-> IF b = "calibrate" THEN TRUE ELSE isCalibrating ]

\* dispatch whose Tare zeroes the reading but leaves the detector Loaded
dispatchTareKeepsLoad(cw, d, b) ==
  IF b = "tare"
  THEN [ current_weight |-> FZero, last_weight |-> d.last_weight,
         load_detected |-> d.load_detected,
         total_weight |-> d.total_weight, load_count |-> d.load_count,
         eeprom |-> eeprom, isCalibrating |-> isCalibrating ]
  ELSE IF b = "store"
  THEN [ dispatchFallThrough(cw, d, b) EXCEPT
           !.eeprom = EEPROMWriteFloat(
                        EEPROMWriteInt(eeprom, EEPROM_LOAD_COUNT_ADDR, d.load_count),
                        EEPROM_TOTAL_WEIGHT_ADDR, d.total_weight) ]
  ELSE IF b = "reset"
  THEN [ current_weight |-> FZero, last_weight |-> FZero, load_detected |-> FALSE,
         total_weight |-> FZero, load_count |-> 0,
         eeprom |-> EEPROMWriteFloat(
                      EEPROMWriteInt(eeprom, EEPROM_LOAD_COUNT_ADDR, 0),
                      EEPROM_TOTAL_WEIGHT_ADDR, FZero),
         isCalibrating |-> isCalibrating ]
  ELSE dispatchFallThrough(cw, d, b)

\* dispatch whose Reset writes the store before it zeroes the accumulator
dispatchResetStoresOld(cw, d, b) ==
  IF b = "tare"
  THEN [ current_weight |-> FZero, last_weight |-> FZero, load_detected |-> FALSE,
         total_weight |-> d.total_weight, load_count |-> d.load_count,
         eeprom |-> eeprom, isCalibrating |-> isCalibrating ]
  ELSE IF b = "store"
  THEN [ dispatchFallThrough(cw, d, b) EXCEPT
           !.eeprom = EEPROMWriteFloat(
                        EEPROMWriteInt(eeprom, EEPROM_LOAD_COUNT_ADDR, d.load_count),
                        EEPROM_TOTAL_WEIGHT_ADDR, d.total_weight) ]
  ELSE IF b = "reset"
  THEN [ current_weight |-> FZero, last_weight |-> FZero, load_detected |-> FALSE,
         total_weight |-> FZero, load_count |-> 0,
         eeprom |-> EEPROMWriteFloat(
                      EEPROMWriteInt(eeprom, EEPROM_LOAD_COUNT_ADDR, d.load_count),
                      EEPROM_TOTAL_WEIGHT_ADDR, d.total_weight),
         isCalibrating |-> isCalibrating ]
  ELSE dispatchFallThrough(cw, d, b)

\* lines 148-202 after detection left cw and d; b is the button hit
dispatch(cw, d, b) ==
  IF b = "tare"
  THEN [ current_weight |-> FZero, last_weight |-> FZero, load_detected |-> FALSE,
         total_weight |-> d.total_weight, load_count |-> d.load_count,
         eeprom |-> eeprom, isCalibrating |-> isCalibrating ]
  ELSE IF b = "store"
  THEN [ current_weight |-> cw, last_weight |-> d.last_weight,
         load_detected |-> d.load_detected,
         total_weight |-> d.total_weight, load_count |-> d.load_count,
         eeprom |-> EEPROMWriteFloat(
                      EEPROMWriteInt(eeprom, EEPROM_LOAD_COUNT_ADDR, d.load_count),
                      EEPROM_TOTAL_WEIGHT_ADDR, d.total_weight),
         isCalibrating |-> isCalibrating ]
  ELSE IF b = "reset"
  THEN [ current_weight |-> FZero, last_weight |-> FZero, load_detected |-> FALSE,
         total_weight |-> FZero, load_count |-> 0,
         eeprom |-> EEPROMWriteFloat(
                      EEPROMWriteInt(eeprom, EEPROM_LOAD_COUNT_ADDR, 0),
                      EEPROM_TOTAL_WEIGHT_ADDR, FZero),
         isCalibrating |-> isCalibrating ]
  ELSE dispatchFallThrough(cw, d, b)

\* the button of a touch (lines 148-151: none unless the pressure passes)
touched(t) == IF t.z THEN hitButton(t.x, t.y) ELSE "none"

(***************************************************************************)
(* History of the samples, in the words of the specification: the filtered *)
(* sample is 0 when |w| < 0.5; a cycle opens at a positive filtered sample *)
(* and completes at the next filtered sample that is 0.                    *)
(***************************************************************************)
Filtered(w) == IF FLt(w, Half) /\ FLt(FNeg(Half), w) THEN FZero ELSE w

History(w, b) ==
  \E g \in {Filtered(w)} :
    LET completes == FEq(g, FZero) /\ ~IsZero(lastPos)
        lp == IF FGt(g, FZero) THEN g ELSE IF FEq(g, FZero) THEN FZero ELSE lastPos
        sl == IF completes THEN FAdd(sumLast, lastPos) ELSE sumLast
    IN IF b = "reset"
       THEN lastPos' = FZero /\ sumLast' = FZero /\ clean' = TRUE
       ELSE IF b = "tare"
       THEN lastPos' = FZero /\ sumLast' = FZero /\ clean' = FALSE
       ELSE /\ lastPos' = lp
            /\ sumLast' = IF clean THEN sl ELSE FZero
            /\ clean' = clean

(***************************************************************************)
(* Actions.                                                                *)
(***************************************************************************)
Init ==
  \E mem \in Images :
    \E g \in {setup(mem)} :
    /\ calibration_factor = g.calibration_factor
    /\ last_weight = g.last_weight
    /\ current_weight = g.current_weight
    /\ total_weight = g.total_weight
    /\ load_count = g.load_count
    /\ load_detected = g.load_detected
    /\ isCalibrating = g.isCalibrating
    /\ enteredWeight = g.enteredWeight
    /\ eeprom = mem
    /\ op = "setup" /\ sample = NoValue /\ button = "none" /\ key = NoKey
    /\ rawValue = NoValue /\ call = NoCall
    /\ cycles = 0
    /\ lastPos = FZero /\ sumLast = FZero /\ clean = FEq(g.total_weight, FZero)
    /\ stored = NoStore

\* a power cycle: the globals are initialised again and setup() runs
Restart ==
  \E g \in {setup(eeprom)} :
  /\ calibration_factor' = g.calibration_factor
  /\ last_weight' = g.last_weight
  /\ current_weight' = g.current_weight
  /\ total_weight' = g.total_weight
  /\ load_count' = g.load_count
  /\ load_detected' = g.load_detected
  /\ isCalibrating' = g.isCalibrating
  /\ enteredWeight' = g.enteredWeight
  /\ eeprom' = eeprom
  /\ op' = "setup" /\ sample' = NoValue /\ button' = "none" /\ key' = NoKey
  /\ rawValue' = NoValue /\ call' = call
  /\ cycles' = cycles
  /\ lastPos' = FZero /\ sumLast' = FZero /\ clean' = FEq(g.total_weight, FZero)
  /\ stored' = stored

\* one pass of loop() in normal mode on the reading w and the touch t
loopNormal(w, t) ==
  /\ \E inc \in increment(load_count) :
     \E cw \in {noiseFilter(w)} :
     \E d \in {detect(cw, inc)} :
     \E b \in {touched(t)} :
     \E r \in {dispatch(cw, d, b)} :
          /\ d.unloaded => cycles < MaxCycles
          /\ current_weight' = r.current_weight
          /\ last_weight' = r.last_weight
          /\ load_detected' = r.load_detected
          /\ total_weight' = r.total_weight
          /\ load_count' = r.load_count
          /\ eeprom' = r.eeprom
          /\ isCalibrating' = r.isCalibrating
          /\ cycles' = IF d.unloaded THEN cycles + 1 ELSE cycles
          /\ op' = "loop" /\ sample' = w /\ button' = b /\ key' = NoKey
          /\ rawValue' = NoValue /\ call' = call
          /\ History(w, b)
          /\ stored' = IF b \in {"store", "reset"}
                       THEN <<r.load_count, r.total_weight>> ELSE stored
  /\ UNCHANGED <<calibration_factor, enteredWeight>>

(***************************************************************************)
(* handleCalibration(), lines 302-371.                                     *)
(***************************************************************************)
\* editBuffer without the test for an earlier "."
editBufferNoDotGuard(str, k) ==
  IF k \in Digits \/ k = "." THEN Append(str, k)
  ELSE IF k = "C" THEN <<>>
  ELSE str

\* lines 315-323: what a digit, "." or "C" does to the buffer
editBuffer(str, k) ==
  IF k \in Digits THEN Append(str, k)
  ELSE IF k = "." THEN (IF ~contains(str, ".") THEN Append(str, k) ELSE str)
  ELSE IF k = "C" THEN <<>>
  ELSE str

\* commits without the test of the buffer's length
commitsAlways(str, k) == k = "E"

\* commits in which Clear ends the calibration as well
commitsOnClear(str, k) == (k = "E" /\ Len(str) > 0) \/ k = "C"

\* lines 324-326: Enter with something in the buffer
commits(str, k) == k = "E" /\ Len(str) > 0

\* newFactor with the operands of the division exchanged
newFactorInverted(rv, str) == FDiv(toFloat(str), rv)

\* lines 327-333: the new factor from the averaged raw reading and the buffer
newFactor(rv, str) == FDiv(rv, toFloat(str))

\* handleCalibration whose commit leaves the typed weight in the buffer
handleCalibrationKeepsBuffer(t, raw) ==
  \E k \in {IF t.z THEN getKeypadInput(t.x, t.y) ELSE NoKey} :
  \E commit \in {commits(enteredWeight, k)} :
  \E edited \in {editBuffer(enteredWeight, k)} :
  \E rv \in {IF commit THEN IntToFloat(raw) ELSE NoValue} :
  \E f \in {IF commit THEN newFactor(rv, enteredWeight) ELSE calibration_factor} :
     /\ Len(edited) <= MaxLen
     /\ enteredWeight' = edited
     /\ calibration_factor' = f
     /\ eeprom' =
          IF commit THEN EEPROMWriteFloat(eeprom, EEPROM_CAL_FACTOR_ADDR, f)
          ELSE eeprom
     /\ isCalibrating' = ~commit
     /\ op' = "handleCalibration" /\ sample' = NoValue /\ button' = "none"
     /\ key' = k
     /\ rawValue' = rv /\ call' = call
     /\ UNCHANGED <<last_weight, current_weight, total_weight, load_count,
                    load_detected, histVars>>

\* one pass of handleCalibration() on the touch t; raw is what
\* scale.read_average(10) would return
handleCalibration(t, raw) ==
  \E k \in {IF t.z THEN getKeypadInput(t.x, t.y) ELSE NoKey} :
  \E commit \in {commits(enteredWeight, k)} :
  \E edited \in {editBuffer(enteredWeight, k)} :
  \E rv \in {IF commit THEN IntToFloat(raw) ELSE NoValue} :
  \E f \in {IF commit THEN newFactor(rv, enteredWeight) ELSE calibration_factor} :
     /\ Len(edited) <= MaxLen
     /\ enteredWeight' = IF commit THEN <<>> ELSE edited
     /\ calibration_factor' = f
     /\ eeprom' =
          IF commit THEN EEPROMWriteFloat(eeprom, EEPROM_CAL_FACTOR_ADDR, f)
          ELSE eeprom
     /\ isCalibrating' = ~commit
     /\ op' = "handleCalibration" /\ sample' = NoValue /\ button' = "none"
     /\ key' = k
     /\ rawValue' = rv /\ call' = call
     /\ UNCHANGED <<last_weight, current_weight, total_weight, load_count,
                    load_detected, histVars>>

\* loop without the test of isCalibrating
loopNoModeTest(S, T, R) == \E w \in S, t \in T : loopNormal(w, t)

\* loop(), lines 116-206, on inputs drawn from S (readings), T (touches) and
\* R (raw averages)
loop(S, T, R) ==
  IF isCalibrating
  THEN \E t \in T, raw \in R : handleCalibration(t, raw)
  ELSE \E w \in S, t \in T : loopNormal(w, t)

Tick == loop(Samples, Touches, Raws)

Next == Restart \/ Tick

Spec == Init /\ [][Next]_vars

CalTick == loop(CalSamples, CalTouches, CalRaws)

NextCal == Restart \/ CalTick

SpecCal == Init /\ [][NextCal]_vars

(***************************************************************************)
(* The integer codec on its own, lines 452-463: EEPROMWriteInt and         *)
(* EEPROMReadInt applied to 16-bit values at addresses of the store.       *)
(***************************************************************************)
\* 16-bit unsigned values: the ends of the range and the neighbours of the
\* byte and sign boundaries
Words == {0, 1, 255, 256, INT_MAX, INT_MAX + 1, 2 * INT_MAX + 1}
\* addresses whose two cells lie in the store
CodecAddresses == {EEPROM_LOAD_COUNT_ADDR, EEPROM_TOTAL_WEIGHT_ADDR + 2,
                   EEPROM_USED - 2}

\* a 16-bit value passed as the int parameter `value`
asInt(u) == IF u > INT_MAX THEN u - Pow2(INT_BITS) ELSE u

\* EEPROMWriteInt(a, v)
WriteInt ==
  \E a \in CodecAddresses, v \in Words :
    /\ eeprom' = EEPROMWriteInt(eeprom, a, asInt(v))
    /\ call' = [fn |-> "EEPROMWriteInt", address |-> a, value |-> v]
    /\ UNCHANGED <<calibration_factor, last_weight, current_weight, total_weight,
                   load_count, load_detected, isCalibrating, enteredWeight,
                   op, sample, button, key, rawValue, histVars>>

\* EEPROMReadInt(a); value is what it returns
ReadInt ==
  \E a \in CodecAddresses :
    /\ call' = [fn |-> "EEPROMReadInt", address |-> a,
                value |-> EEPROMReadInt(eeprom, a)]
    /\ UNCHANGED <<progVars, op, sample, button, key, rawValue, histVars>>

NextCodec == WriteInt \/ ReadInt

SpecCodec == Init /\ [][NextCodec]_vars

(***************************************************************************)
(* The hit tests on their own: the else-if chain of loop() (lines 153-201) *)
(* and getKeypadInput (lines 414-449) applied to a point of the screen.    *)
(***************************************************************************)
InitTouch ==
  \E x \in 0 .. SCREEN_W, y \in 0 .. SCREEN_H :
    \E g \in {setup(Blank)} :
    /\ calibration_factor = g.calibration_factor
    /\ last_weight = g.last_weight
    /\ current_weight = g.current_weight
    /\ total_weight = g.total_weight
    /\ load_count = g.load_count
    /\ load_detected = g.load_detected
    /\ isCalibrating = g.isCalibrating
    /\ enteredWeight = g.enteredWeight
    /\ eeprom = Blank
    /\ op = "setup" /\ sample = NoValue /\ button = "none" /\ key = NoKey
    /\ rawValue = NoValue
    /\ call = [fn |-> "point", x |-> x, y |-> y]
    /\ cycles = 0
    /\ lastPos = FZero /\ sumLast = FZero /\ clean = FEq(g.total_weight, FZero)
    /\ stored = NoStore

\* the button loop() finds and the key getKeypadInput returns at the point
TouchAt ==
  /\ call.fn = "point"
  /\ call' = [fn |-> "touch", x |-> call.x, y |-> call.y,
              button |-> hitButton(call.x, call.y),
              key |-> getKeypadInput(call.x, call.y)]
  /\ UNCHANGED <<progVars, op, sample, button, key, rawValue, histVars>>

NextTouch == TouchAt

SpecTouch == InitTouch /\ [][NextTouch]_vars


(***************************************************************************)
(* Properties.                                                             *)
(***************************************************************************)
\* a step of loop() in normal mode that takes neither the Tare nor the Reset branch
PlainTick == op' = "loop" /\ button' \notin {"tare", "reset"}

\* the filtered sample of the step closes an open cycle
ClosesCycle == ~IsZero(lastPos) /\ FEq(Filtered(sample'), FZero)

\* C1: in a normal-mode tick without Tare or Reset, load_count grows by exactly
\* 1 when the filtered sample is 0 and ends a run of positive samples, however
\* long the run was, and is unchanged by every other such tick.
C1_OnePerCycle ==
  [][PlainTick =>
       load_count' = load_count + (IF ClosesCycle THEN 1 ELSE 0)]_vars

\* C2: from total_weight = 0 and without Tare or Reset, total_weight is the sum
\* of the last positive filtered sample of each completed load cycle.
C2_SumOfLast == clean => total_weight = sumLast

\* C2 witness: two completed cycles since the baseline, worth 0.5 kg and 2 kg
C2_Witness == clean /\ total_weight = Quarters(10)

\* C3: outside Reset and within a power-on session, no step lowers load_count
\* or total_weight.
C3_NonDecreasing ==
  [][(op' = "loop" /\ button' # "reset") =>
       (load_count' >= load_count /\ ~FLt(total_weight', total_weight))]_vars

\* the detector is Loaded when the button of the step is dispatched
LoadedAtDispatch ==
  \/ FGt(Filtered(sample'), FZero)
  \/ load_detected /\ ~FEq(Filtered(sample'), FZero)

\* the step is a normal-mode tick that dispatches Tare on a Loaded detector
TareWhileLoaded == op' = "loop" /\ button' = "tare" /\ LoadedAtDispatch

\* the step is a normal-mode tick without Reset that changes the accumulator
Credits ==
  /\ op' = "loop" /\ button' # "reset"
  /\ (load_count' # load_count \/ total_weight' # total_weight)

\* C4: Tare dispatched while Loaded leaves the detector Empty with last_weight
\* and the reading 0 and the accumulator unchanged; the accumulator only ever
\* grows by the last positive sample seen since the last Tare.
C4_TareDiscards ==
  [][/\ TareWhileLoaded =>
          (/\ ~load_detected' /\ IsZero(last_weight') /\ IsZero(current_weight')
           /\ load_count' = load_count /\ total_weight' = total_weight)
     /\ Credits =>
          (/\ ~IsZero(lastPos)
           /\ total_weight' = FAdd(total_weight, lastPos))]_vars

\* C4 witness: Tare was pressed in a tick whose reading was 2 kg
C4_Witness ==
  /\ op = "loop" /\ button = "tare" /\ sample = Quarters(8)
  /\ ~load_detected /\ IsZero(last_weight)

\* the accumulator a start-up would load from the store mem
Reloaded(mem) == <<setup(mem).load_count, setup(mem).total_weight>>

\* C5: Reset zeroes load_count and total_weight in memory and in the store in
\* one step, and a restart right after it loads zeroes.
C5_ResetZeroes ==
  [][/\ (op' = "loop" /\ button' = "reset") =>
          (/\ load_count' = 0 /\ total_weight' = FZero
           /\ EEPROMReadInt(eeprom', EEPROM_LOAD_COUNT_ADDR) = 0
           /\ EEPROMReadFloat(eeprom', EEPROM_TOTAL_WEIGHT_ADDR) = FZero
           /\ Reloaded(eeprom') = <<0, FZero>>)
     /\ (op = "loop" /\ button = "reset" /\ op' = "setup") =>
          (load_count' = 0 /\ total_weight' = FZero)]_vars

\* C5 witness: a Reset after a completed load cycle
C5_Witness ==
  /\ op = "loop" /\ button = "reset" /\ cycles > 0
  /\ load_count = 0 /\ EEPROMReadInt(eeprom, EEPROM_LOAD_COUNT_ADDR) = 0

\* the cells of the store that hold the accumulator
AccCells == EEPROM_LOAD_COUNT_ADDR .. EEPROM_CAL_FACTOR_ADDR - 1
\* the cells of the store that hold the calibration factor
CalCells == EEPROM_CAL_FACTOR_ADDR .. EEPROM_USED - 1

\* C6: a tick taken while calibrating reads no sample, dispatches no button and
\* leaves the accumulator, the detector and the stored accumulator alone;
\* calibration starts only in a step that dispatches Calibrate.
C6_ModesExclusive ==
  [][/\ (isCalibrating /\ op' # "setup") =>
          (/\ op' = "handleCalibration" /\ sample' = NoValue /\ button' = "none"
           /\ UNCHANGED <<load_count, total_weight, load_detected, last_weight,
                          current_weight>>
           /\ \A a \in AccCells : eeprom'[a] = eeprom[a])
     /\ (~isCalibrating /\ isCalibrating') =>
          (op' = "loop" /\ button' = "calibrate")]_vars

\* C6 witness: a calibration tick with a load on the scale
C6_Witness ==
  isCalibrating /\ op = "handleCalibration" /\ load_detected /\ key # NoKey

\* the step processes Enter with a non-empty buffer
CommitStep == op' = "handleCalibration" /\ key' = "E" /\ enteredWeight # <<>>

\* C7: a Commit whose buffer parses to zero changes neither the factor in
\* memory nor its bytes in the store.
C7_ZeroRejected ==
  [][(CommitStep /\ IsZero(toFloat(enteredWeight))) =>
       (/\ calibration_factor' = calibration_factor
        /\ \A a \in CalCells : eeprom'[a] = eeprom[a])]_vars

\* 700.0 as a binary32: 1.3671875 * 2^9
F700 == MkFloat(0, 136, 3080192)

\* C8: a Commit whose buffer parses to a non-zero weight sets the factor to
\* raw / weight, stores exactly that factor, leaves calibration mode and empties
\* the buffer; "12.5" with a raw average of 8750 gives 700.
C8_CommitSetsFactor ==
  /\ [][(CommitStep /\ ~IsZero(toFloat(enteredWeight))) =>
          (/\ calibration_factor' = FDiv(rawValue', toFloat(enteredWeight))
           /\ EEPROMReadFloat(eeprom', EEPROM_CAL_FACTOR_ADDR) = calibration_factor'
           /\ ~isCalibrating' /\ enteredWeight' = <<>>)]_vars
  /\ [](newFactor(IntToFloat(8750), <<"1", "2", ".", "5">>) = F700)

\* C8 witness: "2" committed on a raw average of 8750 gave 4375
C8_Witness ==
  /\ op = "handleCalibration" /\ key = "E" /\ ~isCalibrating
  /\ rawValue = IntToFloat(8750) /\ calibration_factor = IntToFloat(4375)
  /\ EEPROMReadFloat(eeprom, EEPROM_CAL_FACTOR_ADDR) = IntToFloat(4375)

\* the buffer holds digits and at most one "."
WellFormed(str) ==
  /\ \A i \in 1 .. Len(str) : str[i] \in Digits \cup {"."}
  /\ Cardinality({i \in 1 .. Len(str) : str[i] = "."}) <= 1

\* C9: entry_buffer holds only digits and at most one "."; a "." pressed when
\* there is one already leaves it unchanged.
C9_BufferWellFormed ==
  /\ []WellFormed(enteredWeight)
  /\ [][(op' = "handleCalibration" /\ key' = "." /\ contains(enteredWeight, ".")) =>
          enteredWeight' = enteredWeight]_vars

\* C9 witness: "1", ".", "2", "." left "1.2"
C9_Witness ==
  isCalibrating /\ key = "." /\ enteredWeight = <<"1", ".", "2">>

\* C10: a non-empty entry_buffer always holds at least one digit.
C10_BufferNumeric ==
  enteredWeight # <<>> => \E i \in 1 .. Len(enteredWeight) : enteredWeight[i] \in Digits

\* the step processes Enter with an empty buffer
EmptyCommitStep == op' = "handleCalibration" /\ key' = "E" /\ enteredWeight = <<>>

\* C11: Enter pressed while entry_buffer is empty changes neither the factor,
\* the store, the buffer nor the accumulator, and calibration stays active.
C11_EmptyCommitNoOp ==
  [][EmptyCommitStep =>
       (/\ UNCHANGED <<calibration_factor, eeprom, enteredWeight, load_count,
                       total_weight>>
        /\ isCalibrating')]_vars

\* C11 witness: Enter on the empty buffer, after a factor of 4375 was committed
C11_Witness ==
  /\ op = "handleCalibration" /\ key = "E" /\ isCalibrating
  /\ enteredWeight = <<>> /\ calibration_factor = IntToFloat(4375)

\* a float that is neither NaN nor an infinity
IsFinite(f) == ~isnan(f) /\ ~IsInf(f)

\* C12: start-up puts 0 in total_weight when the stored total is NaN or Inf,
\* and total_weight is never NaN or Inf afterwards.
C12_TotalValid ==
  /\ IsFinite(total_weight)
  /\ (op = "setup" /\ ~IsFinite(EEPROMReadFloat(eeprom, EEPROM_TOTAL_WEIGHT_ADDR)))
       => total_weight = FZero

\* C13: after start-up the factor in use is the default when the stored factor
\* is NaN, Inf or zero, and the stored factor otherwise.
C13_FactorValid ==
  op = "setup" =>
    \E f \in {EEPROMReadFloat(eeprom, EEPROM_CAL_FACTOR_ADDR)} :
      /\ IsFinite(calibration_factor) /\ ~IsZero(calibration_factor)
      /\ calibration_factor =
           IF ~IsFinite(f) \/ IsZero(f) THEN DefaultFactor ELSE f

\* C14: EEPROMWriteInt(a, v) of a 16-bit unsigned v leaves v mod 256 at a and
\* v div 256 at a + 1, and EEPROMReadInt(a) right after it returns v.
C14_U16RoundTrip ==
  [][/\ call'.fn = "EEPROMWriteInt" =>
          (/\ eeprom'[call'.address] = call'.value % 256
           /\ eeprom'[call'.address + 1] = call'.value \div 256)
     /\ (/\ call.fn = "EEPROMWriteInt" /\ call'.fn = "EEPROMReadInt"
         /\ call'.address = call.address) =>
          call'.value = call.value]_vars

\* the step is a normal-mode tick that dispatches Store or Reset
StoreOrResetStep == op' = "loop" /\ button' \in {"store", "reset"}

\* C15 as stated: a stored byte changes only in a step that performs Store or
\* Reset.
C15_OnlyStoreOrReset == [][eeprom' # eeprom => StoreOrResetStep]_vars

\* C15: the accumulator cells of the store change only in a step that performs
\* Store or Reset, and the calibration-factor cells only in a step that commits
\* a calibration; no other step changes a stored byte.
C15_StoreWriters ==
  [][/\ (\E a \in AccCells : eeprom'[a] # eeprom[a]) => StoreOrResetStep
     /\ (\E a \in CalCells : eeprom'[a] # eeprom[a]) => CommitStep]_vars

\* C15 witness: a commit wrote its factor to the factor cells of a store whose
\* accumulator cells a Store had written after a load cycle
C15_Witness ==
  /\ op = "handleCalibration" /\ key = "E" /\ ~isCalibrating
  /\ cycles > 0 /\ stored # NoStore /\ stored[1] # 0
  /\ EEPROMReadFloat(eeprom, EEPROM_CAL_FACTOR_ADDR) = FInf(0)

\* the rectangles drawUI draws for the four buttons, by name
NormalRects ==
  { [name |-> "tare", x |-> TARE_BUTTON_X, y |-> TARE_BUTTON_Y,
     w |-> BUTTON_W, h |-> BUTTON_H],
    [name |-> "store", x |-> STORE_BUTTON_X, y |-> STORE_BUTTON_Y,
     w |-> BUTTON_W, h |-> BUTTON_H],
    [name |-> "reset", x |-> RESET_BUTTON_X, y |-> RESET_BUTTON_Y,
     w |-> BUTTON_W, h |-> BUTTON_H],
    [name |-> "calibrate", x |-> CALIBRATE_BUTTON_X, y |-> CALIBRATE_BUTTON_Y,
     w |-> BUTTON_W, h |-> BUTTON_H] }

\* the rectangles drawKeypad draws for the twelve keys and Clear, by name
KeypadRects ==
  { [name |-> keys[row + 1][col + 1], x |-> startX + col * (keyW + spacing),
     y |-> startY + row * (keyH + spacing), w |-> keyW, h |-> keyH] :
       row \in 0 .. 3, col \in 0 .. 2 }
  \cup { [name |-> "C", x |-> startX, y |-> startY + 4 * (keyH + spacing),
          w |-> keyW * 3 + spacing * 2, h |-> keyH] }

\* the point p is strictly inside the rectangle r
Inside(p, r) ==
  r.x < p.x /\ p.x < r.x + r.w /\ r.y < p.y /\ p.y < r.y + r.h

\* the point p is on the edge of the rectangle r
OnEdge(p, r) ==
  /\ r.x <= p.x /\ p.x <= r.x + r.w /\ r.y <= p.y /\ p.y <= r.y + r.h
  /\ ~Inside(p, r)

\* the names of the rectangles of R that hold p
Holding(p, R) == {r.name : r \in {q \in R : Inside(p, q)}}

\* C16: at every integer point at most one button rectangle and at most one
\* keypad rectangle holds the point, the dispatcher returns that one or none,
\* and a point on the edge of a rectangle is outside it for every button and key.
C16_SingleAction ==
  call.fn = "touch" =>
    /\ Cardinality(Holding(call, NormalRects)) <= 1
    /\ Cardinality(Holding(call, KeypadRects)) <= 1
    /\ Holding(call, NormalRects) \cup {"none"} = {call.button, "none"}
    /\ Holding(call, KeypadRects) \cup {NoKey} = {call.key, NoKey}
    /\ \A r \in NormalRects : OnEdge(call, r) => call.button = "none"
    /\ \A r \in KeypadRects : OnEdge(call, r) => call.key = NoKey

\* C16 witness: the point (300, 240), on the bottom edge of Reset and on the top
\* edge of Clear, is no button and no key
C16_Witness ==
  /\ call.fn = "touch" /\ call.x = startX + keyW /\ call.y = RESET_BUTTON_Y + BUTTON_H
  /\ call.button = "none" /\ call.key = NoKey

\* C17: entry_buffer is empty whenever calibration is not active, and so it is
\* empty in every step that enters calibration mode, the first of a session
\* or a later one.
C17_BufferEmptyOutside ==
  /\ [](~isCalibrating => enteredWeight = <<>>)
  /\ [][(~isCalibrating /\ isCalibrating') => enteredWeight' = <<>>]_vars

\* C17 witness: calibration entered again after "12" was typed and committed
C17_Witness ==
  /\ op = "loop" /\ button = "calibrate" /\ isCalibrating /\ enteredWeight = <<>>
  /\ calibration_factor = newFactor(IntToFloat(8750), <<"1", "2">>)

\* C18: a restart loads into load_count and total_weight the values they had
\* right after the last Store or Reset before it; load cycles completed and
\* calibrations committed since then do not show.
C18_ReloadsLastSaved ==
  [][(op' = "setup" /\ stored # NoStore) =>
       <<load_count', total_weight'>> = stored]_vars

\* C18 witness: a restart that came back to the one load of 0.5 kg that was
\* stored, after two load cycles and a committed calibration
C18_Witness ==
  /\ op = "setup" /\ stored = <<1, Quarters(2)>> /\ cycles = 2
  /\ load_count = 1 /\ total_weight = Quarters(2)
  /\ calibration_factor = FInf(0)

\* C19: within a power-on session calibration mode ends only in a step that
\* processes Enter with a non-empty buffer; Clear, any other key, a touch
\* beside the keys and a pass without a touch leave it active.
C19_OnlyCommitEnds ==
  [][(isCalibrating /\ ~isCalibrating' /\ op' # "setup") => CommitStep]_vars

\* C19 witness: Clear was pressed and calibration is still active, the factor
\* untouched
C19_Witness ==
  /\ op = "handleCalibration" /\ key = "C" /\ isCalibrating
  /\ enteredWeight = <<>> /\ calibration_factor = DefaultFactor

\* the reading of the step is -0.5 kg or below
NegativeSample == FLt(sample', FNeg(Half)) \/ FEq(sample', FNeg(Half))

\* the reading of the step is inside the noise gate: |w| < 0.5
GatedSample == FLt(sample', Half) /\ FLt(FNeg(Half), sample')

\* C20: in a tick without Tare or Reset a reading of -0.5 kg or below changes
\* neither the detector nor the accumulator, and in Loaded last_weight stays the
\* last positive sample; only a reading with |w| < 0.5 completes a cycle.
C20_NegativeIgnored ==
  [][/\ (PlainTick /\ NegativeSample) =>
          (/\ UNCHANGED <<load_detected, last_weight, total_weight, load_count>>
           /\ load_detected => last_weight' = lastPos)
     /\ (PlainTick /\ load_detected /\ ~load_detected') => GatedSample]_vars

\* C20 witness: a reading of -0.5 kg while Loaded with 2 kg
C20_Witness ==
  /\ op = "loop" /\ button = "none" /\ sample = Quarters(-2)
  /\ load_detected /\ last_weight = Quarters(8) /\ current_weight = Quarters(-2)

====
